---- MODULE Spec2Model ----
(***************************************************************************)
(* Beam search decoding of src/src/beam_search.py: the Hypothesis class    *)
(* (extend, _has_trigram, log_prob, avg_log_prob), run_beam_search and     *)
(* sort_hyps.  The sequence model (model.decode_onestep) is an external    *)
(* collaborator; its per-step answer is a nondeterministic input.          *)
(*                                                                         *)
(* Log probabilities are integers (exact sums); -infinity is NegInf.       *)
(* avg_log_prob is the exact quotient log_prob / len(tokens), compared by  *)
(* cross-multiplication.                                                   *)
(***************************************************************************)
EXTENDS Integers, Sequences, FiniteSets, TLC

VARIABLES beam_size, max_dec_steps, min_dec_steps, avoid_trigrams,
          intradecoder, use_temporal_attention, stub,
          hyps, results, steps, latest_tokens, topk, all_hyps, pc, best_hyp,
          x_self, x_token, x_log_prob, x_aux, x_new

vars == <<beam_size, max_dec_steps, min_dec_steps, avoid_trigrams,
          intradecoder, use_temporal_attention, stub,
          hyps, results, steps, latest_tokens, topk, all_hyps, pc, best_hyp,
          x_self, x_token, x_log_prob, x_aux, x_new>>

\* FLAGS and the kind of model behind model.decode_onestep: fixed for a run
cfgvars == <<beam_size, max_dec_steps, min_dec_steps, avoid_trigrams,
             intradecoder, use_temporal_attention, stub>>

\* the arguments and the result of one isolated call of Hypothesis.extend
xvars == <<x_self, x_token, x_log_prob, x_aux, x_new>>

----------------------------------------------------------------------------
(* Bounds of the model *)

\* largest FLAGS.beam_size explored
MaxBeam == 2

\* largest FLAGS.max_dec_steps explored
MaxSteps == 4

\* largest FLAGS.min_dec_steps explored
MaxMin == 1

\* largest number of per-step entries a run may build: each of max_dec_steps
\* steps extends up to beam_size hypotheses 2 * beam_size ways, each candidate
\* with one entry per history it keeps
MaxWork == 24

\* longest receiver token list given to extend in SpecExtend
MaxLen == 5

----------------------------------------------------------------------------
(* Vocabulary ids and log-probability values *)

\* vocab.word2id(data.UNKNOWN_TOKEN)
UNK == 0

\* vocab.word2id(data.START_DECODING)
START == 2

\* vocab.word2id(data.STOP_DECODING)
STOP == 3

\* vocab.size(): ids 0..VocabSize-1 are in-vocabulary
VocabSize == 5

\* a batch-local out-of-vocabulary id (>= vocab.size())
OOV == 5

\* -np.infty
NegInf == -1000

\* the finite log probabilities the model answers with
LogProbs == {-1, -2}

\* the token ids the model answers with: the stop token, an in-vocabulary
\* id (the model's output layer covers the whole vocabulary, [START]
\* included) and an out-of-vocabulary id
EmitTokens == {STOP, START, OOV}

----------------------------------------------------------------------------
(* class Hypothesis *)

\* An object or array the search only passes around (a decoder state, a
\* coverage vector, an attention distribution, ...) is its identity: what it
\* is, the step of the model call that made it (-1: before the loop) and its
\* index in that call's batch.
Handle(kind, step, i) == << kind, step, i >>

\* Python's None, as an argument of extend
None == Handle("None", 0, 0)

Hypothesis(tokens, log_probs, state, decoder_output, encoder_mask, attn_dists, p_gens, coverage) ==
  [tokens |-> tokens, log_probs |-> log_probs, state |-> state,
   decoder_output |-> decoder_output, encoder_mask |-> encoder_mask,
   attn_dists |-> attn_dists, p_gens |-> p_gens, coverage |-> coverage]

\* float addition, -inf absorbing
FAdd(a, b) == IF a = NegInf \/ b = NegInf THEN NegInf ELSE a + b

\* zip(*[input_list[i:] for i in range(n)]): the list of contiguous n-windows
_find_ngrams(input_list, n) ==
  IF Len(input_list) < n THEN << >>
  ELSE [k \in 1..(Len(input_list) - n + 1) |-> SubSeq(input_list, k, k + n - 1)]

\* Counter(grams)[g]: the number of occurrences of g in the list
Counter(grams, g) == Cardinality({k \in 1..Len(grams) : grams[k] = g})

\* a guard that counts 2-token windows instead of 3-token windows
_has_bigram(tokens) ==
  LET bi_grams == _find_ngrams(tokens, 2)
      cnt == [g \in {bi_grams[k] : k \in 1..Len(bi_grams)} |-> Counter(bi_grams, g)]
  IN  ~ (\A g \in DOMAIN cnt : cnt[g] = 1)

\* a guard that looks only at the newest window: does it occur earlier?
_has_trigram_newest(tokens) ==
  LET tri_grams == _find_ngrams(tokens, 3)
  IN  /\ Len(tri_grams) >= 2
      /\ Counter(tri_grams, tri_grams[Len(tri_grams)]) > 1

_has_trigram(tokens) ==
  LET tri_grams == _find_ngrams(tokens, 3)
      cnt == [g \in {tri_grams[k] : k \in 1..Len(tri_grams)} |-> Counter(tri_grams, g)]
  IN  ~ (\A g \in DOMAIN cnt : cnt[g] = 1)

\* an extend that never applies the trigram penalty
extend_unguarded(h, token, log_prob, state, decoder_output, encoder_mask, attn_dist, p_gen, coverage) ==
  Hypothesis(Append(h.tokens, token),
             Append(h.log_probs, log_prob),
             state,
             IF decoder_output # None THEN Append(h.decoder_output, decoder_output) ELSE << >>,
             IF encoder_mask # None THEN Append(h.encoder_mask, encoder_mask) ELSE << >>,
             Append(h.attn_dists, attn_dist),
             Append(h.p_gens, p_gen),
             coverage)

\* an extend that passes on log_probs without the new entry
extend_without_log_prob(h, token, log_prob, state, decoder_output, encoder_mask, attn_dist, p_gen, coverage) ==
  Hypothesis(Append(h.tokens, token),
             h.log_probs,
             state,
             IF decoder_output # None THEN Append(h.decoder_output, decoder_output) ELSE << >>,
             IF encoder_mask # None THEN Append(h.encoder_mask, encoder_mask) ELSE << >>,
             Append(h.attn_dists, attn_dist),
             Append(h.p_gens, p_gen),
             coverage)

\* the hypothesis extend returns
extend(h, token, log_prob, state, decoder_output, encoder_mask, attn_dist, p_gen, coverage) ==
  LET lp == IF avoid_trigrams /\ _has_trigram(Append(h.tokens, token))
            THEN NegInf ELSE log_prob
  IN  Hypothesis(Append(h.tokens, token),
                 Append(h.log_probs, lp),
                 state,
                 IF decoder_output # None THEN Append(h.decoder_output, decoder_output) ELSE << >>,
                 IF encoder_mask # None THEN Append(h.encoder_mask, encoder_mask) ELSE << >>,
                 Append(h.attn_dists, attn_dist),
                 Append(h.p_gens, p_gen),
                 coverage)

\* an extend that appends to the receiver's own token list (self.tokens.append)
extend_self_appending(h, token, log_prob, state, decoder_output, encoder_mask, attn_dist, p_gen, coverage) ==
  [h EXCEPT !.tokens = Append(@, token)]

\* the receiver after extend has returned: extend assigns no attribute of
\* self and builds every list of the new hypothesis with +, a new list
extend_self(h, token, log_prob, state, decoder_output, encoder_mask, attn_dist, p_gen, coverage) == h

latest_token(h) == h.tokens[Len(h.tokens)]

RECURSIVE SumSeq(_)
SumSeq(s) == IF s = << >> THEN 0 ELSE FAdd(s[1], SumSeq(Tail(s)))

\* sum(self.log_probs)
log_prob(h) == SumSeq(h.log_probs)

\* self.log_prob / len(self.tokens), kept as an exact fraction
avg_log_prob(h) == [num |-> log_prob(h), den |-> Len(h.tokens)]

\* x > y for two avg_log_prob values (-inf / n is -inf, and -inf > -inf is false)
FGt(x, y) ==
  IF x.num = NegInf THEN FALSE
  ELSE IF y.num = NegInf THEN TRUE
  ELSE x.num * y.den > y.num * x.den

----------------------------------------------------------------------------
(* sort_hyps: sorted(hyps, key=lambda h: h.avg_log_prob, reverse=True).     *)
(* sorted computes each key once and is stable: equal keys keep their      *)
(* original order, also with reverse=True.                                 *)

\* insert index i into the descending, stable order of the earlier indices
InsertIdx(keys, order, i) ==
  LET ahead == Cardinality({q \in 1..Len(order) : ~ FGt(keys[i], keys[order[q]])})
  IN  SubSeq(order, 1, ahead) \o << i >> \o SubSeq(order, ahead + 1, Len(order))

\* the indices 1..n in sorted order (each partial order is bound as a value,
\* so that it is computed once)
RECURSIVE SortIdx(_, _)
SortIdx(keys, n) ==
  IF n = 0 THEN << >>
  ELSE CHOOSE r \in {InsertIdx(keys, order, n) : order \in {SortIdx(keys, n - 1)}} : TRUE

\* a sort without reverse=True: ascending average log probability
sort_hyps_ascending(hs) ==
  CHOOSE r \in {[k \in 1..Len(hs) |-> hs[SortIdx(keys, Len(hs))[Len(hs) + 1 - k]]] :
                  keys \in {[i \in 1..Len(hs) |-> avg_log_prob(hs[i])]}} : TRUE

sort_hyps(hs) ==
  CHOOSE r \in {[k \in 1..Len(hs) |-> hs[order[k]]] :
                  order \in {SortIdx(keys, Len(hs)) :
                               keys \in {[i \in 1..Len(hs) |-> avg_log_prob(hs[i])]}}} : TRUE

----------------------------------------------------------------------------
(* run_beam_search *)

\* model.run_encoder's dec_in_state: one object
dec_in_state == Handle("state", -1, 0)

\* the hypothesis initial slot k holds: the comprehension evaluates
\* dec_in_state (one object) and a fresh np.zeros array per slot
InitHyp(k) ==
  Hypothesis(<< START >>, << 0 >>, dec_in_state,
             << Handle("decoder_output", -1, k) >>,
             << Handle("encoder_mask", -1, k) >>,
             << >>, << >>,
             Handle("coverage", -1, k))

\* best_hyp before run_beam_search has returned, and the unused call slots
NoHyp == Hypothesis(<< >>, << >>, None, << >>, << >>, << >>, << >>, None)

\* the remaining arguments of extend
Aux(state, decoder_output, encoder_mask, attn_dist, p_gen, coverage) ==
  [state |-> state, decoder_output |-> decoder_output, encoder_mask |-> encoder_mask,
   attn_dist |-> attn_dist, p_gen |-> p_gen, coverage |-> coverage]

NoAux == Aux(None, None, None, None, None, None)

\* one row of topk_ids / topk_log_probs: 2*beam_size candidates in top-k
\* order: the most likely id t1, a runner-up id t2 at rank 2, t1 in the
\* remaining ranks
Rows(bs) ==
  {[j \in 1..(2 * bs) |-> [id |-> IF j = 2 THEN t2 ELSE t1,
                            lp |-> IF j = 1 THEN -1 ELSE -2]] :
     <<t1, t2>> \in EmitTokens \X EmitTokens}

\* the rows of a model that emits only the stop token: any log probabilities
\* in top-k (descending) order
StopRows(bs) ==
  {r \in [1..(2 * bs) -> [id : {STOP}, lp : LogProbs]] :
     \A j \in 1..(2 * bs - 1) : r[j].lp >= r[j + 1].lp}

\* the j-th id other than the stop id: 4 (in-vocabulary), 5, 6, ... (out of
\* vocabulary), pairwise distinct
OtherId(j) == VocabSize - 2 + j

\* the rows of a top-k over a distribution: 2*beam_size pairwise-distinct
\* ids, the stop id at any one rank p or at none (p = 0)
DistinctRows(bs) ==
  {[j \in 1..(2 * bs) |-> [id |-> IF j = p THEN STOP ELSE OtherId(j),
                            lp |-> IF j = 1 THEN -1 ELSE -2]] :
     p \in 0..(2 * bs)}

\* the rows model.decode_onestep may answer with at the current step
ModelRows(bs) ==
  IF stub = "stop_first" /\ steps = 0 THEN StopRows(bs)
  ELSE IF stub = "distinct" THEN DistinctRows(bs)
  ELSE Rows(bs)

\* what else model.decode_onestep answers with at the current step, for the
\* hypothesis at index i of its batch: each a new object of that call
new_states(i) == Handle("state", steps, i)

attn_dists(i) == Handle("attn_dist", steps, i)

p_gens(i) == Handle("p_gen", steps, i)

new_coverage(i) == Handle("coverage", steps, i)

decoder_output(i) == Handle("decoder_output", steps, i)

encoder_e(i) == Handle("encoder_mask", steps, i)

\* a loop that still runs when results holds beam_size hypotheses
LoopCondFullResults == steps < max_dec_steps /\ Len(results) <= beam_size

\* a loop that runs one step too many
LoopCondExtraStep == steps <= max_dec_steps /\ Len(results) < beam_size

\* while-condition of the step loop
LoopCond == steps < max_dec_steps /\ Len(results) < beam_size

\* a substitution that takes vocab.size() itself for an in-vocabulary id
FeedTokensInclusive(hs) ==
  [i \in 1..Len(hs) |->
     IF latest_token(hs[i]) \in 0..VocabSize THEN latest_token(hs[i]) ELSE UNK]

\* a batch holding only the hypotheses that are expanded
FeedExpanded(hs) ==
  [i \in 1..(IF steps = 0 THEN 1 ELSE Len(hs)) |->
     IF latest_token(hs[i]) \in 0..(VocabSize - 1) THEN latest_token(hs[i]) ELSE UNK]

\* latest_tokens as fed to the model: out-of-vocabulary ids replaced by [UNK]
FeedTokens(hs) ==
  [i \in 1..Len(hs) |->
     IF latest_token(hs[i]) \in 0..(VocabSize - 1) THEN latest_token(hs[i]) ELSE UNK]

\* an extension loop over range(FLAGS.beam_size) instead of range(FLAGS.beam_size * 2)
ExtendAllBeamSize(hs, rows, bs) ==
  [k \in 1..(Len(rows) * bs) |->
     LET i == ((k - 1) \div bs) + 1
         j == ((k - 1) % bs) + 1
     IN  extend(hs[i], rows[i][j].id, rows[i][j].lp,
                new_states(i),
                IF intradecoder THEN decoder_output(i) ELSE None,
                IF use_temporal_attention THEN encoder_e(i) ELSE None,
                attn_dists(i), p_gens(i), new_coverage(i))]

\* an extension loop that extends hyps[0] for every i
ExtendAllFirstParent(hs, rows, bs) ==
  [k \in 1..(Len(rows) * 2 * bs) |->
     LET i == ((k - 1) \div (2 * bs)) + 1
         j == ((k - 1) % (2 * bs)) + 1
     IN  extend(hs[1], rows[i][j].id, rows[i][j].lp,
                new_states(i),
                IF intradecoder THEN decoder_output(i) ELSE None,
                IF use_temporal_attention THEN encoder_e(i) ELSE None,
                attn_dists(i), p_gens(i), new_coverage(i))]

RECURSIVE SelfAfter(_, _, _, _)
\* hypothesis hs[i] after the first n calls of h.extend of its inner loop
SelfAfter(hs, rows, i, n) ==
  IF n = 0 THEN hs[i]
  ELSE extend_self(SelfAfter(hs, rows, i, n - 1), rows[i][n].id, rows[i][n].lp,
                   new_states(i),
                   IF intradecoder THEN decoder_output(i) ELSE None,
                   IF use_temporal_attention THEN encoder_e(i) ELSE None,
                   attn_dists(i), p_gens(i), new_coverage(i))

\* hyps after the extension loop: its objects, as the calls of extend left them
AfterExtendAll(hs, rows, bs) ==
  [i \in 1..Len(hs) |-> IF i <= Len(rows) THEN SelfAfter(hs, rows, i, 2 * bs) ELSE hs[i]]

\* all_hyps: hypothesis i extended with each of its 2*beam_size options,
\* rows[i][j] being (topk_ids[i, j], topk_log_probs[i, j])
ExtendAll(hs, rows, bs) ==
  [k \in 1..(Len(rows) * 2 * bs) |->
     LET i == ((k - 1) \div (2 * bs)) + 1
         j == ((k - 1) % (2 * bs)) + 1
     IN  extend(SelfAfter(hs, rows, i, j - 1), rows[i][j].id, rows[i][j].lp,
                new_states(i),
                IF intradecoder THEN decoder_output(i) ELSE None,
                IF use_temporal_attention THEN encoder_e(i) ELSE None,
                attn_dists(i), p_gens(i), new_coverage(i))]

\* a scan that accepts a stop token one step early (steps + 1 >= min_dec_steps)
RECURSIVE ScanEarlyStop(_, _, _, _, _, _)
ScanEarlyStop(cands, k, hs, res, st, bs) ==
  IF k > Len(cands) THEN [hyps |-> hs, results |-> res]
  ELSE LET h == cands[k]
           res2 == IF latest_token(h) = STOP /\ st + 1 >= min_dec_steps
                   THEN Append(res, h) ELSE res
           hs2 == IF latest_token(h) = STOP THEN hs ELSE Append(hs, h)
       IN  IF Len(hs2) = bs \/ Len(res2) = bs
           THEN [hyps |-> hs2, results |-> res2]
           ELSE ScanEarlyStop(cands, k + 1, hs2, res2, st, bs)

\* a scan that keeps a too-early stop candidate in the next beam
RECURSIVE ScanStopToBeam(_, _, _, _, _, _)
ScanStopToBeam(cands, k, hs, res, st, bs) ==
  IF k > Len(cands) THEN [hyps |-> hs, results |-> res]
  ELSE LET h == cands[k]
           res2 == IF latest_token(h) = STOP /\ st >= min_dec_steps
                   THEN Append(res, h) ELSE res
           hs2 == IF latest_token(h) = STOP /\ st >= min_dec_steps
                  THEN hs ELSE Append(hs, h)
       IN  IF Len(hs2) = bs \/ Len(res2) = bs
           THEN [hyps |-> hs2, results |-> res2]
           ELSE ScanStopToBeam(cands, k + 1, hs2, res2, st, bs)

\* a scan without the break
RECURSIVE ScanNoBreak(_, _, _, _, _, _)
ScanNoBreak(cands, k, hs, res, st, bs) ==
  IF k > Len(cands) THEN [hyps |-> hs, results |-> res]
  ELSE LET h == cands[k]
           res2 == IF latest_token(h) = STOP /\ st >= min_dec_steps
                   THEN Append(res, h) ELSE res
           hs2 == IF latest_token(h) = STOP THEN hs ELSE Append(hs, h)
       IN  ScanNoBreak(cands, k + 1, hs2, res2, st, bs)

\* a scan whose break looks at the next beam only
RECURSIVE ScanBeamBreak(_, _, _, _, _, _)
ScanBeamBreak(cands, k, hs, res, st, bs) ==
  IF k > Len(cands) THEN [hyps |-> hs, results |-> res]
  ELSE LET h == cands[k]
           res2 == IF latest_token(h) = STOP /\ st >= min_dec_steps
                   THEN Append(res, h) ELSE res
           hs2 == IF latest_token(h) = STOP THEN hs ELSE Append(hs, h)
       IN  IF Len(hs2) = bs
           THEN [hyps |-> hs2, results |-> res2]
           ELSE ScanBeamBreak(cands, k + 1, hs2, res2, st, bs)

\* the scan over the sorted candidates from position k on, with its break
RECURSIVE Scan(_, _, _, _, _, _)
Scan(cands, k, hs, res, st, bs) ==
  IF k > Len(cands) THEN [hyps |-> hs, results |-> res]
  ELSE LET h == cands[k]
           res2 == IF latest_token(h) = STOP /\ st >= min_dec_steps
                   THEN Append(res, h) ELSE res
           hs2 == IF latest_token(h) = STOP THEN hs ELSE Append(hs, h)
       IN  IF Len(hs2) = bs \/ Len(res2) = bs
           THEN [hyps |-> hs2, results |-> res2]
           ELSE Scan(cands, k + 1, hs2, res2, st, bs)

\* the state at the head of the loop, before the first step
InitSearch ==
  /\ hyps = [i \in 1..beam_size |-> InitHyp(i)]
  /\ results = << >>
  /\ steps = 0
  /\ latest_tokens = << >>
  /\ topk = << >>
  /\ all_hyps = << >>
  /\ pc = "running"
  /\ best_hyp = NoHyp

NoCall ==
  /\ x_self = NoHyp
  /\ x_token = START
  /\ x_log_prob = 0
  /\ x_aux = NoAux
  /\ x_new = NoHyp

\* the per-step histories a hypothesis keeps: attn_dists / p_gens, and
\* decoder_output and encoder_mask when their flags are set
Kept == 1 + (IF intradecoder THEN 1 ELSE 0) + (IF use_temporal_attention THEN 1 ELSE 0)

Init ==
  /\ beam_size \in 0..MaxBeam
  /\ max_dec_steps \in 0..MaxSteps
  /\ min_dec_steps \in 0..MaxMin
  /\ avoid_trigrams \in BOOLEAN
  /\ intradecoder \in BOOLEAN
  /\ use_temporal_attention \in BOOLEAN
  /\ 2 * beam_size * beam_size * max_dec_steps * Kept <= MaxWork
  /\ stub = "free"
  /\ InitSearch
  /\ NoCall

\* lines 130-182: one model call and the extension of every hypothesis.
\* The rows of the answer that are read are those of the expanded hypotheses.
Expand ==
  /\ pc = "running"
  /\ LoopCond
  /\ pc' = "scan"
  /\ latest_tokens' = FeedTokens(hyps)
  /\ LET num_orig_hyps == IF steps = 0 THEN 1 ELSE Len(hyps)
     IN  topk' \in [1..num_orig_hyps -> ModelRows(beam_size)]
  /\ all_hyps' = ExtendAll(hyps, topk', beam_size)
  /\ hyps' = AfterExtendAll(hyps, topk', beam_size)
  /\ UNCHANGED <<results, steps, best_hyp>>
  /\ UNCHANGED cfgvars
  /\ UNCHANGED xvars

\* lines 185-197: sort the candidates, route them, advance the step counter.
\* The model's answer and all_hyps are not read again before the next step
\* replaces them.
Select ==
  /\ pc = "scan"
  /\ pc' = "running"
  /\ \E hyps_sorted \in {sort_hyps(all_hyps)} :
       \E r \in {Scan(hyps_sorted, 1, << >>, results, steps, beam_size)} :
         /\ hyps' = r.hyps
         /\ results' = r.results
  /\ steps' = steps + 1
  /\ topk' = << >>
  /\ all_hyps' = << >>
  /\ UNCHANGED <<latest_tokens, best_hyp>>
  /\ UNCHANGED cfgvars
  /\ UNCHANGED xvars

\* a return that selects the best of the results and the final beam together
FinishBestOfAll ==
  /\ pc = "running"
  /\ ~ LoopCond
  /\ results' = results \o hyps
  /\ IF Len(results') = 0
     THEN /\ pc' = "error"
          /\ best_hyp' = best_hyp
     ELSE /\ pc' = "done"
          /\ \E hyps_sorted \in {sort_hyps(results')} : best_hyp' = hyps_sorted[1]
  /\ UNCHANGED <<hyps, steps, latest_tokens, topk, all_hyps>>
  /\ UNCHANGED cfgvars
  /\ UNCHANGED xvars

\* lines 199-208: fall back to the beam, sort, return the first;
\* hyps_sorted[0] of an empty list raises IndexError
Finish ==
  /\ pc = "running"
  /\ ~ LoopCond
  /\ results' = IF Len(results) = 0 THEN hyps ELSE results
  /\ IF Len(results') = 0
     THEN /\ pc' = "error"
          /\ best_hyp' = best_hyp
     ELSE /\ pc' = "done"
          /\ \E hyps_sorted \in {sort_hyps(results')} : best_hyp' = hyps_sorted[1]
  /\ UNCHANGED <<hyps, steps, latest_tokens, topk, all_hyps>>
  /\ UNCHANGED cfgvars
  /\ UNCHANGED xvars

Next == Expand \/ Select \/ Finish

Spec == Init /\ [][Next]_vars

\* the search is a sequential program: it takes its next step whenever it has one
SpecFair == Spec /\ WF_vars(Next)

----------------------------------------------------------------------------
(* The search with a model that emits only the stop token on step 0 *)

InitStop ==
  /\ beam_size = 4
  /\ max_dec_steps \in 1..MaxSteps
  /\ min_dec_steps = 0
  /\ avoid_trigrams \in BOOLEAN
  /\ intradecoder \in BOOLEAN
  /\ use_temporal_attention \in BOOLEAN
  /\ stub = "stop_first"
  /\ InitSearch
  /\ NoCall

SpecStop == InitStop /\ [][Next]_vars

----------------------------------------------------------------------------
(* The search with a model whose rows hold pairwise-distinct ids *)

InitDistinct ==
  /\ beam_size \in 1..MaxBeam
  /\ max_dec_steps \in 0..MaxSteps
  /\ min_dec_steps \in 0..MaxMin
  /\ avoid_trigrams \in BOOLEAN
  /\ intradecoder = FALSE
  /\ use_temporal_attention = FALSE
  /\ 2 * beam_size * beam_size * max_dec_steps * Kept <= MaxWork
  /\ stub = "distinct"
  /\ InitSearch
  /\ NoCall

SpecDistinct == InitDistinct /\ [][Next]_vars

----------------------------------------------------------------------------
(* Hypothesis.extend as a function: one call on a receiver the search can  *)
(* build, with any token and any finite log probability                    *)

\* the hypothesis the search builds for a token list: [START] extended token by token
RECURSIVE BuildHyp(_)
BuildHyp(tokens) ==
  IF Len(tokens) = 1 THEN InitHyp(1)
  ELSE extend(BuildHyp(SubSeq(tokens, 1, Len(tokens) - 1)), tokens[Len(tokens)], -1,
              Handle("state", Len(tokens) - 2, 1), None, None,
              Handle("attn_dist", Len(tokens) - 2, 1), Handle("p_gen", Len(tokens) - 2, 1),
              Handle("coverage", Len(tokens) - 2, 1))

\* the remaining arguments of the call: the optional ones absent or present
AuxArgs ==
  {Aux(Handle("state", MaxLen, 1), d, e,
       Handle("attn_dist", MaxLen, 1), Handle("p_gen", MaxLen, 1), Handle("coverage", MaxLen, 1)) :
     <<d, e>> \in {None, Handle("decoder_output", MaxLen, 1)} \X {None, Handle("encoder_mask", MaxLen, 1)}}

Receivers ==
  UNION {{BuildHyp(<< START >> \o t) : t \in [1..n -> {START, OOV}]} : n \in 0..(MaxLen - 1)}

InitExtend ==
  /\ beam_size = 0
  /\ max_dec_steps = 0
  /\ min_dec_steps = 0
  /\ avoid_trigrams \in BOOLEAN
  /\ intradecoder = FALSE
  /\ use_temporal_attention = FALSE
  /\ stub = "free"
  /\ hyps = << >>
  /\ results = << >>
  /\ steps = 0
  /\ latest_tokens = << >>
  /\ topk = << >>
  /\ all_hyps = << >>
  /\ best_hyp = NoHyp
  /\ pc = "call"
  /\ x_self \in Receivers
  /\ x_token \in EmitTokens
  /\ x_log_prob \in LogProbs
  /\ x_aux \in AuxArgs
  /\ x_new = NoHyp

CallExtend ==
  /\ pc = "call"
  /\ x_new' = extend(x_self, x_token, x_log_prob, x_aux.state, x_aux.decoder_output,
                     x_aux.encoder_mask, x_aux.attn_dist, x_aux.p_gen, x_aux.coverage)
  /\ x_self' = extend_self(x_self, x_token, x_log_prob, x_aux.state, x_aux.decoder_output,
                            x_aux.encoder_mask, x_aux.attn_dist, x_aux.p_gen, x_aux.coverage)
  /\ pc' = "returned"
  /\ UNCHANGED <<x_token, x_log_prob, x_aux>>
  /\ UNCHANGED <<hyps, results, steps, latest_tokens, topk, all_hyps, best_hyp>>
  /\ UNCHANGED cfgvars

NextExtend == CallExtend

SpecExtend == InitExtend /\ [][NextExtend]_vars

----------------------------------------------------------------------------
(* Properties *)

\* the loop has been left
LoopDone == pc \in {"done", "error"}

\* some 3-token window of the token list occurs at two positions
Repeats(tokens) ==
  \E i, j \in 1..(Len(tokens) - 2) :
    /\ i < j
    /\ tokens[i] = tokens[j]
    /\ tokens[i + 1] = tokens[j + 1]
    /\ tokens[i + 2] = tokens[j + 2]

HasNegInf(h) == \E k \in 1..Len(h.log_probs) : h.log_probs[k] = NegInf

InPool(h, pool) == \E k \in 1..Len(pool) : pool[k] = h

\* C1: for every valid configuration (beam_size >= 1, min_dec_steps <=
\* max_dec_steps) and every sequence of model answers, run_beam_search ends by
\* returning a hypothesis of the final pool (the results, or the current beam
\* when nothing was completed); it never ends in an error.
C1_AlwaysReturns ==
  (beam_size >= 1 /\ min_dec_steps <= max_dec_steps /\ LoopDone)
    => (pc = "done" /\ InPool(best_hyp, results))

\* C2: the returned hypothesis has at least 1 and at most max_dec_steps + 1 tokens.
C2_ReturnedLength ==
  pc = "done" => (Len(best_hyp.tokens) >= 1 /\ Len(best_hyp.tokens) <= max_dec_steps + 1)

C2_Witness ==
  pc = "done" /\ max_dec_steps >= 2 /\ Len(best_hyp.tokens) = max_dec_steps + 1

\* C3: the returned hypothesis is one of the final pool and its avg_log_prob
\* is >= the avg_log_prob of every hypothesis of that pool.
C3_BestIsMaximal ==
  pc = "done" =>
    /\ InPool(best_hyp, results)
    /\ \A k \in 1..Len(results) :
         LET b == avg_log_prob(best_hyp)
             r == avg_log_prob(results[k])
         IN  IF r.num = NegInf THEN TRUE
             ELSE b.num # NegInf /\ b.num * r.den >= r.num * b.den

C3_Witness ==
  /\ pc = "done"
  /\ Len(results) >= 2
  /\ \E k \in 1..Len(results) : FGt(avg_log_prob(best_hyp), avg_log_prob(results[k]))
  /\ best_hyp # results[1]

\* C4: a candidate that ends with the stop token at a step index below
\* min_dec_steps is never in results (a completed hypothesis of n tokens was
\* completed at step index n - 2) and never in the beam.
C4_NoEarlyStop ==
  /\ \A k \in 1..Len(results) :
       latest_token(results[k]) = STOP => Len(results[k].tokens) - 2 >= min_dec_steps
  /\ \A k \in 1..Len(hyps) : latest_token(hyps[k]) # STOP

C4_Witness ==
  /\ pc = "running"
  /\ steps = 1
  /\ min_dec_steps >= 1
  /\ beam_size >= 1
  /\ Len(hyps) < beam_size
  /\ Len(results) = 0

C6_StopsAfterOneStep ==
  /\ steps <= 1
  /\ pc # "error"
  /\ (pc = "done" => steps = 1)
  /\ (steps = 1 /\ pc # "scan") =>
       /\ Len(results) >= 1
       /\ Len(results) <= 4
       /\ \A k \in 1..Len(results) : latest_token(results[k]) = STOP

C6_Witness ==
  /\ pc = "done"
  /\ steps = 1
  /\ max_dec_steps >= 2
  /\ Len(results) = 4

\* C7: with avoid_trigrams, extend records -inf as the last log_prob iff
\* tokens + [token] has a 3-token window that occurs twice; otherwise, and
\* always without avoid_trigrams, it records the given log_prob.
C7_TrigramGuard ==
  pc = "returned" =>
    LET last == x_new.log_probs[Len(x_new.log_probs)]
        dup == Repeats(Append(x_self.tokens, x_token))
    IN  /\ x_new.tokens = Append(x_self.tokens, x_token)
        /\ avoid_trigrams => (last = NegInf <=> dup)
        /\ (~ avoid_trigrams \/ ~ dup) => last = x_log_prob

C7_Witness ==
  /\ pc = "returned"
  /\ avoid_trigrams
  /\ ~ Repeats(x_self.tokens)
  /\ Repeats(x_new.tokens)
  /\ x_new.log_probs[Len(x_new.log_probs)] = NegInf

\* C8: with avoid_trigrams, a hypothesis with a duplicated 3-gram (a -inf
\* among its log_probs) is not returned when the pool the answer is taken
\* from holds a non-repeating hypothesis with a finite score.
C8_RepeatNotBest ==
  (pc = "done" /\ avoid_trigrams /\ (Repeats(best_hyp.tokens) \/ HasNegInf(best_hyp)))
    => \A k \in 1..Len(results) :
         Repeats(results[k].tokens) \/ HasNegInf(results[k])

C8_Witness ==
  /\ pc = "done"
  /\ avoid_trigrams
  /\ \E k \in 1..Len(results) : Repeats(results[k].tokens) /\ HasNegInf(results[k])
  /\ ~ Repeats(best_hyp.tokens)
  /\ ~ HasNegInf(best_hyp)

\* C10 (as amended): the batch passed to model.decode_onestep has one entry
\* per hypothesis of the current beam: beam_size entries on step 0 and at
\* most beam_size on every later step.
C10_BatchIsBeam ==
  pc = "scan" =>
    /\ Len(latest_tokens) = Len(hyps)
    /\ Len(latest_tokens) <= beam_size
    /\ (steps = 0 => Len(latest_tokens) = beam_size)

C10_Witness ==
  /\ pc = "scan"
  /\ steps = 0
  /\ beam_size = 2
  /\ Len(latest_tokens) = 2

\* C10 (as claimed): the batch has as many entries as the beam: 1 on step 0,
\* at most beam_size on every later step.
C10_OneEntryOnStepZero ==
  pc = "scan" =>
    /\ Len(latest_tokens) = Len(hyps)
    /\ (steps = 0 => Len(latest_tokens) = 1)
    /\ (steps > 0 => Len(latest_tokens) <= beam_size)

\* no two hypotheses at different positions of the pool hold the same state
\* handle or the same coverage vector
ExclusiveIn(pool) ==
  \A a, b \in 1..Len(pool) :
    a < b => (pool[a].state # pool[b].state /\ pool[a].coverage # pool[b].coverage)

\* C11: at every point of the search, no two distinct hypotheses of the
\* beam, of the candidate list or of results hold the same decoder-state
\* handle or the same coverage vector.
C11_ExclusiveHandles ==
  /\ ExclusiveIn(hyps)
  /\ ExclusiveIn(all_hyps)
  /\ (Len(results) > 0 /\ results # hyps) => ExclusiveIn(results)

\* C12: a configuration with beam_size <= 0 or min_dec_steps > max_dec_steps
\* is rejected before the loop: the search ends in the error state, no
\* decoding step is executed and no hypothesis is returned.
C12_ConfigRejected ==
  (beam_size <= 0 \/ min_dec_steps > max_dec_steps)
    => (steps = 0 /\ pc \in {"running", "error"} /\ best_hyp = NoHyp)

\* C13: extend never mutates its receiver.  Over the extension loop of a
\* step, every hypothesis of the beam is left as it was (all fields), and
\* every candidate is a new hypothesis whose tokens are its parent's tokens
\* followed by the candidate token, whatever its siblings are.
C13_ExtendKeepsReceiver ==
  [][(pc = "running" /\ pc' = "scan") =>
       /\ hyps' = hyps
       /\ \A k \in 1..Len(all_hyps') :
            LET i == ((k - 1) \div (2 * beam_size)) + 1
                j == ((k - 1) % (2 * beam_size)) + 1
            IN  /\ all_hyps'[k].tokens = Append(hyps[i].tokens, topk'[i][j].id)
                /\ all_hyps'[k] # hyps'[i]]_vars

C13_Witness ==
  /\ pc = "scan"
  /\ steps >= 1
  /\ intradecoder
  /\ use_temporal_attention
  /\ Len(all_hyps) >= 2
  /\ all_hyps[1].tokens # all_hyps[2].tokens

\* C14: with beam_size >= 1 and rows of 2*beam_size pairwise-distinct ids,
\* the beam at the head of the loop holds exactly beam_size hypotheses
\* whenever the accumulated results have not reached beam_size.
C14_BeamIsFull ==
  (pc = "running" /\ Len(results) < beam_size) => Len(hyps) = beam_size

C14_Witness ==
  /\ pc = "running"
  /\ steps >= 2
  /\ beam_size = 2
  /\ min_dec_steps = 1
  /\ Len(results) = 1
  /\ Len(hyps) = 2

IsStop(h) == latest_token(h) = STOP

IsNotStop(h) == latest_token(h) # STOP

\* the number of the first k entries of s that continue / that are accepted
\* as completed at the current step
Continuing(s, k) == Cardinality({q \in 1..k : IsNotStop(s[q])})

Accepted(s, k) == IF steps >= min_dec_steps THEN Cardinality({q \in 1..k : IsStop(s[q])}) ELSE 0

\* the rank of the first candidate after which the next beam or results
\* hold exactly beam_size entries (the last rank when there is none)
Cutoff(s) ==
  LET full == {k \in 1..Len(s) :
                 Continuing(s, k) = beam_size \/ Len(results) + Accepted(s, k) = beam_size}
  IN  IF full = {} THEN Len(s) ELSE CHOOSE k \in full : \A q \in full : k <= q

\* C15: after the scan of a step the next beam and results each hold at most
\* beam_size hypotheses; the pools are exactly the candidates ranked up to
\* the first rank at which either pool holds beam_size entries, and every
\* candidate ranked after it is in neither pool.
C15_ScanCutoff ==
  [][(pc = "scan" /\ pc' = "running") =>
       LET s == sort_hyps(all_hyps)
           kept == SubSeq(s, 1, Cutoff(s))
       IN  /\ Len(hyps') <= beam_size
           /\ Len(results') <= beam_size
           /\ hyps' = SelectSeq(kept, IsNotStop)
           /\ results' = results \o (IF steps >= min_dec_steps
                                      THEN SelectSeq(kept, IsStop) ELSE << >>)]_vars

C15_Witness ==
  /\ pc = "running"
  /\ steps >= 1
  /\ beam_size = 2
  /\ Len(results) = 2
  /\ Len(hyps) = 1

\* avg_log_prob of h1 >= avg_log_prob of h2, as floats compare
AvgGeq(h1, h2) ==
  LET a == avg_log_prob(h1)
      b == avg_log_prob(h2)
  IN  IF b.num = NegInf THEN TRUE
      ELSE a.num # NegInf /\ a.num * b.den >= b.num * a.den

\* C16: in every step, each hypothesis placed in the next beam has an
\* avg_log_prob >= that of every non-stop candidate of the step that was not
\* placed in it, and each hypothesis appended to results in the step has an
\* avg_log_prob >= that of every candidate the cutoff discarded (in neither
\* pool).
C16_KeptAreBest ==
  [][(pc = "scan" /\ pc' = "running") =>
       LET new == SubSeq(results', Len(results) + 1, Len(results'))
       IN  /\ \A a \in 1..Len(hyps') : \A k \in 1..Len(all_hyps) :
                (IsNotStop(all_hyps[k]) /\ ~ InPool(all_hyps[k], hyps'))
                  => AvgGeq(hyps'[a], all_hyps[k])
           /\ \A a \in 1..Len(new) : \A k \in 1..Len(all_hyps) :
                (~ InPool(all_hyps[k], hyps') /\ ~ InPool(all_hyps[k], new))
                  => AvgGeq(new[a], all_hyps[k])]_vars

C16_Witness ==
  /\ pc = "running"
  /\ steps = 2
  /\ beam_size = 2
  /\ min_dec_steps = 0
  /\ Len(hyps) = 2
  /\ Len(results) = 1
  /\ Len(results[1].tokens) = 3
  /\ FGt(avg_log_prob(hyps[1]), avg_log_prob(hyps[2]))

\* C17: when some hypothesis was completed during the loop, the returned
\* hypothesis is one of the completed ones (it ends with the stop token and
\* was completed at a step index >= min_dec_steps), also when the final beam
\* holds a better one; a hypothesis of the final beam is returned only when
\* none was completed.
C17_CompletedFirst ==
  pc = "done" =>
    /\ (\E k \in 1..Len(results) : IsStop(results[k])) =>
          /\ IsStop(best_hyp)
          /\ Len(best_hyp.tokens) - 2 >= min_dec_steps
          /\ \A k \in 1..Len(results) : IsStop(results[k])
    /\ IsNotStop(best_hyp) =>
          /\ results = hyps
          /\ \A k \in 1..Len(results) : IsNotStop(results[k])

C17_Witness ==
  /\ pc = "done"
  /\ IsStop(best_hyp)
  /\ Len(hyps) >= 1
  /\ \E k \in 1..Len(hyps) : FGt(avg_log_prob(hyps[k]), avg_log_prob(best_hyp))

\* a hypothesis has as many log_probs as tokens and starts with the start token
WellFormed(h) == Len(h.log_probs) = Len(h.tokens) /\ Len(h.tokens) >= 1 /\ h.tokens[1] = START

\* C18: every hypothesis (of the beam, of the candidate list, of results,
\* and the returned one) has len(log_probs) = len(tokens) and tokens[0] = the
\* start token; at the head of the loop with step counter s every hypothesis
\* of the beam has exactly s + 1 tokens.
C18_Shape ==
  /\ \A k \in 1..Len(hyps) : WellFormed(hyps[k])
  /\ \A k \in 1..Len(all_hyps) : WellFormed(all_hyps[k])
  /\ \A k \in 1..Len(results) : WellFormed(results[k])
  /\ pc = "done" => WellFormed(best_hyp)
  /\ pc = "running" => \A k \in 1..Len(hyps) : Len(hyps[k].tokens) = steps + 1

C18_Witness ==
  /\ pc = "running"
  /\ steps >= 3
  /\ Len(hyps) = 2
  /\ Len(results) = 1
  /\ Len(results[1].tokens) < steps + 1

\* C19: on step 0 exactly one hypothesis (index 0) is expanded, into
\* 2*beam_size candidates; on a later step every hypothesis of the beam is
\* expanded, into len(beam) * 2*beam_size candidates; candidate j of parent i
\* is that parent's tokens and log_probs extended with slot j of its row
\* (the log_prob, or -inf under the trigram guard) and holds that parent's
\* new state and new coverage.
C19_Expansion ==
  pc = "scan" =>
    LET parents == IF steps = 0 THEN 1 ELSE Len(hyps)
    IN  /\ Len(topk) = parents
        /\ Len(all_hyps) = parents * 2 * beam_size
        /\ \A i \in 1..parents : \A j \in 1..(2 * beam_size) :
             LET c == all_hyps[(i - 1) * 2 * beam_size + j]
                 last == c.log_probs[Len(c.log_probs)]
             IN  /\ c.tokens = hyps[i].tokens \o << topk[i][j].id >>
                 /\ SubSeq(c.log_probs, 1, Len(c.log_probs) - 1) = hyps[i].log_probs
                 /\ last \in {topk[i][j].lp, NegInf}
                 /\ ~ avoid_trigrams => last = topk[i][j].lp
                 /\ c.state = << "state", steps, i >>
                 /\ c.coverage = << "coverage", steps, i >>

C19_Witness ==
  /\ pc = "scan"
  /\ steps >= 1
  /\ Len(hyps) = 2
  /\ hyps[1].tokens # hyps[2].tokens
  /\ Len(all_hyps) = 8
  /\ all_hyps[5].state # all_hyps[4].state

\* from the first prefix of h.tokens with a duplicated 3-gram on, every
\* log_prob of h is -inf, and so are its log_prob and its avg_log_prob
PenaltyPermanent(h) ==
  /\ \A n \in 1..Len(h.tokens) :
       Repeats(SubSeq(h.tokens, 1, n)) => h.log_probs[n] = NegInf
  /\ Repeats(h.tokens) => (log_prob(h) = NegInf /\ avg_log_prob(h).num = NegInf)

\* C20: with avoid_trigrams, once the tokens of a hypothesis contain a
\* duplicated 3-gram, every later extension adds -inf as its log_prob, and
\* log_prob and avg_log_prob are -inf from then on: for every hypothesis of
\* the beam, of the candidate list and of results.
C20_PenaltyStays ==
  avoid_trigrams =>
    /\ \A k \in 1..Len(hyps) : PenaltyPermanent(hyps[k])
    /\ \A k \in 1..Len(all_hyps) : PenaltyPermanent(all_hyps[k])
    /\ \A k \in 1..Len(results) : PenaltyPermanent(results[k])

C20_Witness ==
  /\ avoid_trigrams
  /\ pc = "running"
  /\ \E k \in 1..Len(hyps) :
       /\ Len(hyps[k].tokens) = 5
       /\ Repeats(SubSeq(hyps[k].tokens, 1, 4))
       /\ hyps[k].tokens[5] # hyps[k].tokens[4]
       /\ hyps[k].log_probs[4] = NegInf
       /\ hyps[k].log_probs[5] = NegInf

\* C21: at every step the token fed to the model for a hypothesis is its
\* latest token when that id is in [0, vocab.size()) and the unknown-token id
\* otherwise; the hypothesis keeps its own tokens, and the tokens of each of
\* its extensions start with them (the original id included).
C21_FeedUnk ==
  [][(pc = "running" /\ pc' = "scan") =>
       /\ Len(latest_tokens') = Len(hyps)
       /\ \A i \in 1..Len(hyps) :
            LET t == hyps[i].tokens[Len(hyps[i].tokens)]
            IN  /\ latest_tokens'[i] = IF t >= 0 /\ t < VocabSize THEN t ELSE UNK
                /\ hyps'[i].tokens = hyps[i].tokens
       /\ \A k \in 1..Len(all_hyps') :
            LET i == ((k - 1) \div (2 * beam_size)) + 1
                c == all_hyps'[k].tokens
            IN  SubSeq(c, 1, Len(c) - 1) = hyps[i].tokens]_vars

C21_Witness ==
  /\ pc = "scan"
  /\ Len(hyps) = 2
  /\ latest_token(hyps[1]) = OOV
  /\ latest_tokens[1] = UNK
  /\ latest_token(hyps[2]) = START
  /\ latest_tokens[2] = START
  /\ all_hyps[1].tokens[Len(hyps[1].tokens)] = OOV

\* the number of stop tokens among the tokens of h
StopCount(h) == Cardinality({n \in 1..Len(h.tokens) : h.tokens[n] = STOP})

\* C22: while the loop runs, no hypothesis of the beam contains the stop
\* token, and every hypothesis of the accumulated results ends with the stop
\* token and contains it exactly once; a step never removes or changes a
\* hypothesis of results (results only grows at its end).
C22_StopOnlyInResults ==
  /\ [](pc \in {"running", "scan"} =>
         /\ \A k \in 1..Len(hyps) : StopCount(hyps[k]) = 0
         /\ \A k \in 1..Len(results) : IsStop(results[k]) /\ StopCount(results[k]) = 1)
  /\ [][/\ Len(results') >= Len(results)
         /\ SubSeq(results', 1, Len(results)) = results]_vars

C22_Witness ==
  /\ pc = "running"
  /\ steps >= 3
  /\ Len(hyps) >= 1
  /\ Len(results) >= 1
  /\ Len(results[1].tokens) = 2
  /\ Len(results[Len(results)].tokens) = steps + 1

====
